---- MODULE Spec2Model ----
(***************************************************************************)
(* populate_database.py: chunk identity (calculate_chunk_ids) and the      *)
(* synchronisation of a chunk batch with the persisted Chroma store        *)
(* (add_to_chroma), driven by main.                                        *)
(***************************************************************************)
EXTENDS Integers, Sequences, FiniteSets, TLC

\* ---------------------------------------------------------------- bounds
\* File contents are the abstract byte strings 1..MaxContent.
MaxContent == 2
\* Pages of a PDF file (one document per page).
PdfPages == 2
\* Longest chunk batch handed to calculate_chunk_ids directly (SpecIds).
MaxLen == 3

\* ------------------------------------------------------ program constants
chunk_size_default == 800
chunk_overlap == 80

\* ------------------------------------------------------------ Python values
\* Python's None, and what an f-string makes of a value.
None == "<None>"
Str(v) == IF v = None THEN "None" ELSE v
\* chunk.metadata.get("page") of a document without pages.
NoPage == -1
StrPage(p) == IF p = NoPage THEN "None" ELSE ToString(p)
\* A path that does not resolve to a file.
NotFound == 0

Contents == 1..MaxContent
FileStates == Contents \cup {NotFound}
\* The files under DATA_PATH, per glob of load_documents, in load order.
MdFiles == <<"a.md">>
PdfFiles == <<"b.pdf">>
DocxFiles == <<>>
Range(s) == {s[k] : k \in DOMAIN s}
Paths == Range(MdFiles) \cup Range(PdfFiles) \cup Range(DocxFiles)
ChunkSizes == {chunk_size_default, 400}

Min(a, b) == IF a < b THEN a ELSE b

RECURSIVE Concat(_)
Concat(seqs) == IF seqs = <<>> THEN <<>> ELSE Head(seqs) \o Concat(Tail(seqs))

\* ------------------------------------------------------------ fingerprint
\* hashlib.sha1(bytes).hexdigest(): one digest per byte string.
Sha1HexConst(c) == "sha1"
Sha1Hex(c) == "sha1-" \o ToString(c)

\* calculate_sha1: the digest, or None when open() raises FileNotFoundError.
calculate_sha1(fs, filepath) ==
    IF fs[filepath] = NotFound THEN None ELSE Sha1Hex(fs[filepath])

\* ------------------------------------------------------- loading, splitting
\* Characters of text a loader extracts from a document of content c.
DocLen(c) == 500 * c

\* The documents one loader yields for one path.
LoadFile(fs, path, paged) ==
    IF fs[path] = NotFound THEN <<>>
    ELSE IF paged
         THEN [p \in 1..PdfPages |->
                  [source |-> path, page |-> p - 1, content |-> fs[path]]]
         ELSE <<[source |-> path, page |-> NoPage, content |-> fs[path]]>>

DirectoryLoader(fs, glob, paged) ==
    Concat([k \in DOMAIN glob |-> LoadFile(fs, glob[k], paged)])

load_documents(fs) ==
    DirectoryLoader(fs, MdFiles, FALSE)
      \o DirectoryLoader(fs, PdfFiles, TRUE)
      \o DirectoryLoader(fs, DocxFiles, FALSE)

\* RecursiveCharacterTextSplitter: spans of at most size characters that
\* overlap by chunk_overlap, each keeping the document's metadata.
NumChunks(len, size) ==
    IF len <= size THEN 1
    ELSE ((len - chunk_overlap) + (size - chunk_overlap) - 1)
            \div (size - chunk_overlap)

SplitDoc(doc, size) ==
    [k \in 1..NumChunks(DocLen(doc.content), size) |->
        [source |-> doc.source,
         page   |-> doc.page,
         text   |-> <<doc.content, doc.page, (k - 1) * (size - chunk_overlap),
                      Min((k - 1) * (size - chunk_overlap) + size,
                          DocLen(doc.content))>>,
         id     |-> None]]

split_documents(docs, size) ==
    Concat([k \in DOMAIN docs |-> SplitDoc(docs[k], size)])

\* ----------------------------------------------------------- chunk identity
\* f"{source}:{page}:{sha1_hash}"
PageId(source, page, sha1_hash) ==
    source \o ":" \o StrPage(page) \o ":" \o Str(sha1_hash)

\* f"{current_page_id}:{current_chunk_index}"
ChunkId(page_id, index) == page_id \o ":" \o ToString(index)

\* The index of the chunk after one whose page id was last and index was n.
NextIndexGlobal(page_id, last, n) == IF last = None THEN 0 ELSE n + 1
NextIndexFromOne(page_id, last, n) == IF page_id = last THEN n + 1 ELSE 1
NextIndex(page_id, last, n) == IF page_id = last THEN n + 1 ELSE 0

\* -------------------------------------------------------------- the store
EmptyDb == [x \in {} |-> None]
Ids(cs) == {cs[k].id : k \in DOMAIN cs}
IdSeq(cs) == [k \in DOMAIN cs |-> cs[k].id]

\* new_chunks: the chunks whose id is not in the store, in batch order.
NewChunksAll(cs, existing) == cs
NewChunksInverted(cs, existing) == SelectSeq(cs, LAMBDA c : c.id \in existing)
NewChunks(cs, existing) == SelectSeq(cs, LAMBDA c : c.id \notin existing)

\* obsolete_ids = existing_ids - current_ids
ObsoleteIdsNone(existing, current) == {}
ObsoleteIdsAll(existing, current) == existing
ObsoleteIds(existing, current) == existing \ current

\* db.delete(ids=...)
StoreDeleteAll(store, ids) == EmptyDb
StoreDelete(store, ids) == [x \in DOMAIN store \ ids |-> store[x]]

\* db.add_documents(new_chunks, ids=new_chunk_ids): each document is written
\* under its id; of two documents under one id the later one stays.
LastAt(cs, x) == CHOOSE k \in DOMAIN cs :
    /\ cs[k].id = x
    /\ \A j \in DOMAIN cs : cs[j].id = x => j <= k
Item(c) == [text |-> c.text, source |-> c.source, page |-> c.page]
StoreAddReplace(store, cs) == [x \in Ids(cs) |-> Item(cs[LastAt(cs, x)])]
StoreAdd(store, cs) ==
    [x \in DOMAIN store \cup Ids(cs) |->
        IF x \in Ids(cs) THEN Item(cs[LastAt(cs, x)]) ELSE store[x]]

\* ------------------------------------------------------------------ state
VARIABLES
    files,                \* DATA_PATH: path -> content, or NotFound
    chunk_size,           \* the splitter's chunk_size
    db,                   \* CHROMA_PATH: id -> stored document
    pc,                   \* where the run of main is
    documents,            \* main: documents
    chunks,               \* main: chunks (calculate_chunk_ids sets their id)
    i,                    \* calculate_chunk_ids: position of the loop
    last_page_id,         \* calculate_chunk_ids
    current_chunk_index,  \* calculate_chunk_ids
    existing_ids,         \* add_to_chroma
    new_chunks,           \* add_to_chroma
    obsolete_ids,         \* add_to_chroma
    ops,                  \* history: the store calls of this run, in order
    db0,                  \* history: the store when this run started
    snapshot,             \* history: files and chunk_size this run loaded with
    raced,                \* history: a file changed after this run loaded it
    prevRun,              \* history: the completed run right before this one
    partial,              \* history: batch of the interrupted run before this
    prevIds,              \* history: ids the previous call of
                          \*   calculate_chunk_ids gave this batch
    runs                  \* overlapping runs of add_to_chroma: run -> its
                          \*   position, existing_ids, new_chunks, obsolete_ids

vars == <<files, chunk_size, db, pc, documents, chunks, i, last_page_id,
          current_chunk_index, existing_ids, new_chunks, obsolete_ids, ops,
          db0, snapshot, raced, prevRun, partial, prevIds, runs>>

env == <<files, chunk_size>>
calc == <<i, last_page_id, current_chunk_index>>
sync == <<existing_ids, new_chunks, obsolete_ids>>
hist == <<db0, snapshot, raced, prevRun, partial>>

NoSnapshot == [files |-> [p \in Paths |-> NotFound],
               chunk_size |-> chunk_size_default]
NoRun == [valid |-> FALSE, files |-> NoSnapshot.files,
          chunk_size |-> NoSnapshot.chunk_size, chunks |-> <<>>,
          clean |-> FALSE]
NoPartial == [valid |-> FALSE, chunks |-> <<>>, at |-> "idle"]
\* The runs of add_to_chroma that overlap on one store.
Runs == {1, 2}
NoRuns == [r \in Runs |-> [pc |-> "idle", existing_ids |-> {},
                           new_chunks |-> <<>>, obsolete_ids |-> {}]]

Rest == {"idle", "done", "failed", "killed"}
Running == {"load", "split", "calc", "loop", "returned", "delete", "add",
            "finish"}
\* The run has reached the store steps of add_to_chroma.
InStoreSteps == {"delete", "add", "finish"}

Init ==
    /\ files = [p \in Paths |-> NotFound]
    /\ chunk_size = chunk_size_default
    /\ db = EmptyDb
    /\ pc = "idle"
    /\ documents = <<>>
    /\ chunks = <<>>
    /\ i = 0
    /\ last_page_id = None
    /\ current_chunk_index = 0
    /\ existing_ids = {}
    /\ new_chunks = <<>>
    /\ obsolete_ids = {}
    /\ ops = <<>>
    /\ db0 = EmptyDb
    /\ snapshot = NoSnapshot
    /\ raced = FALSE
    /\ prevRun = NoRun
    /\ partial = NoPartial
    /\ prevIds = <<>>
    /\ runs = NoRuns

\* ------------------------------------------------------------ environment
\* A file under DATA_PATH is written, created or removed before the run
\* loads the documents.
WriteFile(p, c) ==
    /\ pc = "load"
    /\ files[p] # c
    /\ files' = [files EXCEPT ![p] = c]
    /\ UNCHANGED <<chunk_size, db, pc, documents, chunks, calc, sync, ops,
                   hist, prevIds, runs>>

\* A file is removed after load_documents read it and before
\* calculate_chunk_ids fingerprints it.
RemoveFileDuringRun(p) ==
    /\ pc = "split"
    /\ files[p] # NotFound
    /\ files' = [files EXCEPT ![p] = NotFound]
    /\ raced' = TRUE
    /\ UNCHANGED <<chunk_size, db, pc, documents, chunks, calc, sync, ops,
                   db0, snapshot, prevRun, partial, prevIds, runs>>

\* ------------------------------------------------------------------- main
\* main, lines 20-25: parse the arguments; with --reset, clear_database.
\* The process runs with the chunk_size its source has when it starts.
Start(reset, size) ==
    /\ pc \in Rest
    /\ pc' = "load"
    /\ db' = IF reset THEN EmptyDb ELSE db
    /\ db0' = db
    /\ chunk_size' = size
    /\ ops' = <<>>
    /\ documents' = <<>>
    /\ chunks' = <<>>
    /\ i' = 0
    /\ last_page_id' = None
    /\ current_chunk_index' = 0
    /\ existing_ids' = {}
    /\ new_chunks' = <<>>
    /\ obsolete_ids' = {}
    /\ snapshot' = NoSnapshot
    /\ raced' = FALSE
    /\ prevRun' = IF pc = "done" /\ ~reset
                  THEN [valid |-> TRUE, files |-> snapshot.files,
                        chunk_size |-> snapshot.chunk_size,
                        chunks |-> chunks, clean |-> ~raced]
                  ELSE NoRun
    /\ partial' = IF pc \in {"failed", "killed"} THEN partial ELSE NoPartial
    /\ UNCHANGED <<files, prevIds, runs>>

\* main, line 28: load_documents returns the documents.
LoadDocuments ==
    /\ pc = "load"
    /\ documents' = load_documents(files)
    /\ snapshot' = [files |-> files, chunk_size |-> chunk_size]
    /\ pc' = "split"
    /\ UNCHANGED <<env, db, chunks, calc, sync, ops, db0, raced, prevRun,
                   partial, prevIds, runs>>

\* main, line 28: load_documents raises (DATA_PATH cannot be read).
LoadDocumentsFails ==
    /\ pc = "load"
    /\ pc' = "failed"
    /\ partial' = NoPartial
    /\ UNCHANGED <<env, db, documents, chunks, calc, sync, ops, db0, snapshot,
                   raced, prevRun, prevIds, runs>>

\* main, line 29: split_documents.
SplitDocuments ==
    /\ pc = "split"
    /\ chunks' = split_documents(documents, chunk_size)
    /\ pc' = "calc"
    /\ UNCHANGED <<env, db, documents, calc, sync, ops, hist, prevIds, runs>>

\* ---------------------------------------------------- calculate_chunk_ids
\* lines 139-140
CalcStartStale ==
    /\ pc = "calc"
    /\ i' = 1
    /\ pc' = "loop"
    /\ UNCHANGED <<env, db, documents, chunks, last_page_id,
                   current_chunk_index, sync, ops, hist, prevIds, runs>>

CalcStart ==
    /\ pc = "calc"
    /\ last_page_id' = None
    /\ current_chunk_index' = 0
    /\ i' = 1
    /\ pc' = "loop"
    /\ UNCHANGED <<env, db, documents, chunks, sync, ops, hist, prevIds, runs>>

\* lines 142-159: one iteration of the loop
CalcStep ==
    /\ pc = "loop"
    /\ i <= Len(chunks)
    /\ LET source == chunks[i].source
           page == chunks[i].page
           sha1_hash == calculate_sha1(files, source)
           current_page_id == PageId(source, page, sha1_hash)
           index == NextIndex(current_page_id, last_page_id,
                              current_chunk_index)
       IN /\ current_chunk_index' = index
          /\ last_page_id' = current_page_id
          /\ chunks' = [chunks EXCEPT ![i].id = ChunkId(current_page_id, index)]
    /\ i' = i + 1
    /\ UNCHANGED <<env, db, pc, documents, sync, ops, hist, prevIds, runs>>

\* line 161
CalcReturn ==
    /\ pc = "loop"
    /\ i > Len(chunks)
    /\ pc' = "returned"
    /\ UNCHANGED <<env, db, documents, chunks, calc, sync, ops, hist, prevIds, runs>>

\* calculate_chunk_ids is called again on the batch it returned.
CallAgain ==
    /\ pc = "returned"
    /\ prevIds' = IdSeq(chunks)
    /\ pc' = "calc"
    /\ UNCHANGED <<env, db, documents, chunks, calc, sync, ops, hist, runs>>

\* ----------------------------------------------------------- add_to_chroma
\* lines 106-119: read the stored ids, compute new_chunks and obsolete_ids.
GetExisting ==
    /\ pc = "returned"
    /\ existing_ids' = DOMAIN db
    /\ new_chunks' = NewChunks(chunks, DOMAIN db)
    /\ obsolete_ids' = ObsoleteIds(DOMAIN db, Ids(chunks))
    /\ ops' = Append(ops, <<"get">>)
    /\ pc' = "delete"
    /\ UNCHANGED <<env, db, documents, chunks, calc, hist, prevIds, runs>>

\* lines 120-123: obsolete_ids is not empty and the store deletes them.
DeleteObsolete ==
    /\ pc = "delete"
    /\ obsolete_ids # {}
    /\ db' = StoreDelete(db, obsolete_ids)
    /\ ops' = Append(ops, <<"delete", obsolete_ids>>)
    /\ pc' = "add"
    /\ UNCHANGED <<env, documents, chunks, calc, sync, hist, prevIds, runs>>

\* line 120: obsolete_ids is empty.
DeleteEmptyCalled ==
    /\ pc = "delete"
    /\ obsolete_ids = {}
    /\ ops' = Append(ops, <<"delete", obsolete_ids>>)
    /\ pc' = "add"
    /\ UNCHANGED <<env, db, documents, chunks, calc, sync, hist, prevIds, runs>>

DeleteSkipped ==
    /\ pc = "delete"
    /\ obsolete_ids = {}
    /\ pc' = "add"
    /\ UNCHANGED <<env, db, documents, chunks, calc, sync, ops, hist, prevIds, runs>>

\* line 122: db.delete raises; nothing catches it.
DeleteRejected ==
    /\ pc = "delete"
    /\ obsolete_ids # {}
    /\ pc' = "failed"
    /\ partial' = [valid |-> TRUE, chunks |-> chunks, at |-> pc]
    /\ UNCHANGED <<env, db, documents, chunks, calc, sync, ops, db0, snapshot,
                   raced, prevRun, prevIds, runs>>

\* lines 125-129: new_chunks is not empty and the store adds them.
AddNew ==
    /\ pc = "add"
    /\ Len(new_chunks) # 0
    /\ db' = StoreAdd(db, new_chunks)
    /\ ops' = Append(ops, <<"add", Ids(new_chunks)>>)
    /\ pc' = "finish"
    /\ UNCHANGED <<env, documents, chunks, calc, sync, hist, prevIds, runs>>

\* lines 130-131: new_chunks is empty.
AddSkipped ==
    /\ pc = "add"
    /\ Len(new_chunks) = 0
    /\ pc' = "finish"
    /\ UNCHANGED <<env, db, documents, chunks, calc, sync, ops, hist, prevIds, runs>>

\* line 128: db.add_documents raises; nothing catches it.
AddRejectedSwallowed ==
    /\ pc = "add"
    /\ Len(new_chunks) # 0
    /\ pc' = "finish"
    /\ UNCHANGED <<env, db, documents, chunks, calc, sync, ops, hist, prevIds, runs>>

AddRejected ==
    /\ pc = "add"
    /\ Len(new_chunks) # 0
    /\ pc' = "failed"
    /\ partial' = [valid |-> TRUE, chunks |-> chunks, at |-> pc]
    /\ UNCHANGED <<env, db, documents, chunks, calc, sync, ops, db0, snapshot,
                   raced, prevRun, prevIds, runs>>

\* main, line 30: add_to_chroma has returned and the process exits.
Finish ==
    /\ pc = "finish"
    /\ pc' = "done"
    /\ UNCHANGED <<env, db, documents, chunks, calc, sync, ops, hist, prevIds, runs>>

\* The process is terminated before the delete, between the delete and the
\* add, or after the add.
Terminate ==
    /\ pc \in InStoreSteps
    /\ pc' = "killed"
    /\ partial' = [valid |-> TRUE, chunks |-> chunks, at |-> pc]
    /\ UNCHANGED <<env, db, documents, chunks, calc, sync, ops, db0, snapshot,
                   raced, prevRun, prevIds, runs>>

\* Every step but the start of a run.
Steps ==
    \/ \E p \in Paths, c \in FileStates : WriteFile(p, c)
    \/ LoadDocuments
    \/ LoadDocumentsFails
    \/ SplitDocuments
    \/ CalcStart
    \/ CalcStep
    \/ CalcReturn
    \/ GetExisting
    \/ DeleteObsolete
    \/ DeleteSkipped
    \/ DeleteRejected
    \/ AddNew
    \/ AddSkipped
    \/ AddRejected
    \/ Finish
    \/ Terminate

\* The program as it is: chunk_size stays what line 88 sets.
Next ==
    \/ \E reset \in BOOLEAN : Start(reset, chunk_size)
    \/ Steps

Spec == Init /\ [][Next]_vars

\* The program with chunk_size edited between runs.
NextResized ==
    \/ \E reset \in BOOLEAN, size \in ChunkSizes : Start(reset, size)
    \/ Steps

SpecResized == Init /\ [][NextResized]_vars

\* The program with files removed while it runs.
NextRaced ==
    \/ \E p \in Paths : RemoveFileDuringRun(p)
    \/ Next

SpecRaced == Init /\ [][NextRaced]_vars

\* ------------------------------------- calculate_chunk_ids on any batch
Pages == {NoPage, 0}
AnyChunk == [source : Paths, page : Pages, text : {<<>>}, id : {None}]
Batches == UNION {[1..n -> AnyChunk] : n \in 1..MaxLen}

InitIds ==
    /\ files \in [Paths -> FileStates]
    /\ chunks \in Batches
    /\ chunk_size = chunk_size_default
    /\ db = EmptyDb
    /\ pc = "calc"
    /\ documents = <<>>
    /\ i = 0
    /\ last_page_id = None
    /\ current_chunk_index = 0
    /\ existing_ids = {}
    /\ new_chunks = <<>>
    /\ obsolete_ids = {}
    /\ ops = <<>>
    /\ db0 = EmptyDb
    /\ snapshot = NoSnapshot
    /\ raced = FALSE
    /\ prevRun = NoRun
    /\ partial = NoPartial
    /\ prevIds = <<>>
    /\ runs = NoRuns

NextIds ==
    \/ CalcStart
    \/ CalcStep
    \/ CalcReturn
    \/ CallAgain

SpecIds == InitIds /\ [][NextIds]_vars

\* ---------------------------- overlapping runs of add_to_chroma on a store
\* calculate_chunk_ids as a function of the batch and the files: the page id
\* of the chunk at position k and current_chunk_index after the loop passed it.
PageIdAt(cs, fs, k) ==
    PageId(cs[k].source, cs[k].page, calculate_sha1(fs, cs[k].source))

RECURSIVE IndexAt(_, _, _)
IndexAt(cs, fs, k) ==
    IF k = 0 THEN 0
    ELSE NextIndex(PageIdAt(cs, fs, k),
                   IF k = 1 THEN None ELSE PageIdAt(cs, fs, k - 1),
                   IndexAt(cs, fs, k - 1))

calculate_chunk_ids(cs, fs) ==
    [k \in DOMAIN cs |->
        [cs[k] EXCEPT !.id = ChunkId(PageIdAt(cs, fs, k), IndexAt(cs, fs, k))]]

\* The batch main hands to add_to_chroma when the files are fs.
BatchOf(fs) ==
    calculate_chunk_ids(split_documents(load_documents(fs), chunk_size_default),
                        fs)

\* The stores runs leave behind: the store synchronised with some files, or
\* what is left of it when the documents of some sources have been deleted.
StoreOf(fs, sources) ==
    StoreAdd(EmptyDb,
             SelectSeq(BatchOf(fs), LAMBDA c : c.source \in sources))
Stores == {StoreOf(fs, sources) :
              fs \in [Paths -> FileStates], sources \in SUBSET Paths}

others == <<files, chunk_size, pc, documents, chunks, calc, sync, ops, hist,
            prevIds>>

InitOverlap ==
    /\ files \in [Paths -> FileStates]
    /\ chunk_size = chunk_size_default
    /\ chunks = BatchOf(files)
    /\ db \in Stores
    /\ runs = [r \in Runs |-> [NoRuns[r] EXCEPT !.pc = "get"]]
    /\ pc = "idle"
    /\ documents = <<>>
    /\ i = 0
    /\ last_page_id = None
    /\ current_chunk_index = 0
    /\ existing_ids = {}
    /\ new_chunks = <<>>
    /\ obsolete_ids = {}
    /\ ops = <<>>
    /\ db0 = db
    /\ snapshot = NoSnapshot
    /\ raced = FALSE
    /\ prevRun = NoRun
    /\ partial = NoPartial
    /\ prevIds = <<>>

\* lines 106-119, in run r
OverlapGet(r) ==
    /\ runs[r].pc = "get"
    /\ runs' = [runs EXCEPT ![r] =
                   [pc |-> "delete",
                    existing_ids |-> DOMAIN db,
                    new_chunks |-> NewChunks(chunks, DOMAIN db),
                    obsolete_ids |-> ObsoleteIds(DOMAIN db, Ids(chunks))]]
    /\ UNCHANGED <<db, others>>

\* lines 120-123, in run r: ids the other run has deleted are not there any
\* more, and the store deletes the rest.
OverlapDelete(r) ==
    /\ runs[r].pc = "delete"
    /\ runs[r].obsolete_ids # {}
    /\ db' = StoreDelete(db, runs[r].obsolete_ids)
    /\ runs' = [runs EXCEPT ![r].pc = "add"]
    /\ UNCHANGED others

\* line 120, in run r
OverlapDeleteSkipped(r) ==
    /\ runs[r].pc = "delete"
    /\ runs[r].obsolete_ids = {}
    /\ runs' = [runs EXCEPT ![r].pc = "add"]
    /\ UNCHANGED <<db, others>>

\* lines 125-129, in run r: chunks the other run has added are written again.
OverlapAdd(r) ==
    /\ runs[r].pc = "add"
    /\ Len(runs[r].new_chunks) # 0
    /\ db' = StoreAdd(db, runs[r].new_chunks)
    /\ runs' = [runs EXCEPT ![r].pc = "done"]
    /\ UNCHANGED others

\* lines 130-131, in run r
OverlapAddSkipped(r) ==
    /\ runs[r].pc = "add"
    /\ Len(runs[r].new_chunks) = 0
    /\ runs' = [runs EXCEPT ![r].pc = "done"]
    /\ UNCHANGED <<db, others>>

NextOverlap ==
    \E r \in Runs :
        \/ OverlapGet(r)
        \/ OverlapDelete(r)
        \/ OverlapDeleteSkipped(r)
        \/ OverlapAdd(r)
        \/ OverlapAddSkipped(r)

SpecOverlap == InitOverlap /\ [][NextOverlap]_vars

\* ------------------------------------------------------------ the claims
OfSource(cs, p) == SelectSeq(cs, LAMBDA c : c.source = p)
\* The ids this run has passed to the store's add, and to its delete.
Added == UNION {ops[k][2] : k \in {j \in DOMAIN ops : ops[j][1] = "add"}}
Deleted == UNION {ops[k][2] : k \in {j \in DOMAIN ops : ops[j][1] = "delete"}}
\* add_to_chroma has computed new_chunks and obsolete_ids.
AfterGet == {"delete", "add", "finish", "done"}
\* This run follows a completed run that split with the same chunk_size, and
\* in neither run was a file removed between loading and fingerprinting.
Successive ==
    /\ prevRun.valid
    /\ prevRun.clean
    /\ ~raced
    /\ prevRun.chunk_size = snapshot.chunk_size
\* Moreover the files this run loaded are those the last run loaded.
SameSources == Successive /\ prevRun.files = snapshot.files

\* C1: when calculate_chunk_ids returns, no two chunks of the batch have the
\* same id, whatever the order of the batch.
C1_UniqueIds ==
    pc = "returned" =>
        \A j, k \in DOMAIN chunks : j # k => chunks[j].id # chunks[k].id

\* C2: a run that follows a completed run on the same files computes no new
\* chunk and no obsolete id, and calls neither add nor delete: the store
\* stays as the run found it.
C2_IdempotentSync ==
    (pc \in AfterGet /\ SameSources) =>
        /\ new_chunks = <<>>
        /\ obsolete_ids = {}
        /\ Added = {}
        /\ Deleted = {}
        /\ db = db0

C2_Witness ==
    /\ pc = "done"
    /\ SameSources
    /\ Len(chunks) >= 2
    /\ DOMAIN db = Ids(chunks)
    /\ ops = <<<<"get">>>>

\* A file both runs loaded, with other bytes in this run than in the last.
Changed(p) ==
    /\ prevRun.files[p] # NotFound
    /\ snapshot.files[p] # NotFound
    /\ prevRun.files[p] # snapshot.files[p]
Unchanged(p) == prevRun.files[p] = snapshot.files[p]
\* Only file p differs between the last run's files and this run's.
OnlyDiffers(p) == \A q \in Paths \ {p} : Unchanged(q)

\* C3: in a completed run that follows a completed run, every chunk of a file
\* whose bytes changed is added and every id the last run gave that file is
\* deleted, and no id of a file whose bytes did not change is added or deleted.
C3_ContentChange ==
    (pc = "done" /\ Successive) =>
        \A p \in Paths :
            /\ Changed(p) =>
                /\ OfSource(new_chunks, p) = OfSource(chunks, p)
                /\ Ids(OfSource(chunks, p)) \subseteq Added
                /\ Ids(OfSource(prevRun.chunks, p)) \subseteq Deleted
            /\ Unchanged(p) =>
                /\ OfSource(new_chunks, p) = <<>>
                /\ Ids(OfSource(chunks, p)) \cap Added = {}
                /\ Ids(OfSource(prevRun.chunks, p)) \cap Deleted = {}

C3_Witness ==
    /\ pc = "done"
    /\ Successive
    /\ \E p, q \in Paths :
        /\ Changed(p)
        /\ Unchanged(q)
        /\ OfSource(chunks, q) # <<>>
        /\ Added = Ids(OfSource(chunks, p))
        /\ Deleted = Ids(OfSource(prevRun.chunks, p))
        /\ Added # {}
        /\ Deleted # {}

\* C4: in a completed run that follows a completed run, when exactly one file
\* is new and the others are unchanged, the run adds exactly the chunks of
\* the new file, deletes nothing, and gives the chunks of the other files the
\* ids they had.
C4_MinimalDiff ==
    (pc = "done" /\ Successive) =>
        \A p \in Paths :
            (/\ prevRun.files[p] = NotFound
             /\ snapshot.files[p] # NotFound
             /\ OnlyDiffers(p)) =>
                /\ new_chunks = OfSource(chunks, p)
                /\ Added = Ids(OfSource(chunks, p))
                /\ Deleted = {}
                /\ \A q \in Paths \ {p} :
                    IdSeq(OfSource(chunks, q)) = IdSeq(OfSource(prevRun.chunks, q))

C4_Witness ==
    /\ pc = "done"
    /\ Successive
    /\ prevRun.files[MdFiles[1]] = NotFound
    /\ snapshot.files[MdFiles[1]] # NotFound
    /\ OnlyDiffers(MdFiles[1])
    /\ Len(OfSource(chunks, PdfFiles[1])) >= 2
    /\ Added # {}
    /\ DOMAIN db = Ids(chunks)

\* C5: in a completed run that follows a completed run, when exactly one file
\* is gone and the others are unchanged, the run deletes exactly the ids the
\* last run gave that file and adds nothing.
C5_DeletionOnRemoval ==
    (pc = "done" /\ Successive) =>
        \A p \in Paths :
            (/\ prevRun.files[p] # NotFound
             /\ snapshot.files[p] = NotFound
             /\ OnlyDiffers(p)) =>
                /\ Deleted = Ids(OfSource(prevRun.chunks, p))
                /\ \A q \in Paths \ {p} :
                    Ids(OfSource(prevRun.chunks, q)) \cap Deleted = {}
                /\ new_chunks = <<>>
                /\ Added = {}

C5_Witness ==
    /\ pc = "done"
    /\ Successive
    /\ \E p, q \in Paths :
        /\ prevRun.files[p] # NotFound
        /\ snapshot.files[p] = NotFound
        /\ OnlyDiffers(p)
        /\ p # q
        /\ OfSource(chunks, q) # <<>>
        /\ Deleted # {}
        /\ DOMAIN db = Ids(OfSource(chunks, q))

\* C6: a call of calculate_chunk_ids starts its loop with last_page_id None
\* and current_chunk_index 0, and a second call on the same batch and files
\* returns, position by position, the ids the first call returned.
C6_Deterministic ==
    /\ (pc = "loop" /\ i = 1) =>
           (last_page_id = None /\ current_chunk_index = 0)
    /\ (pc = "returned" /\ prevIds # <<>>) => IdSeq(chunks) = prevIds

C6_Witness ==
    /\ pc = "returned"
    /\ prevIds # <<>>
    /\ Len(chunks) >= 2
    /\ current_chunk_index >= 1
    /\ IdSeq(chunks) = prevIds

\* The ids a batch would get from a fingerprint that is None.
UndefinedFingerprintIds(cs) ==
    {ChunkId(PageId(cs[k].source, cs[k].page, None), n) :
        k \in DOMAIN cs, n \in 0..Len(cs)}

\* C7: no chunk gets an id built from the fingerprint of a file that cannot be
\* read, and the store holds no document under such an id.
C7_FingerprintFailurePropagates ==
    /\ Ids(chunks) \cap UndefinedFingerprintIds(chunks) = {}
    /\ DOMAIN db \cap UndefinedFingerprintIds(chunks) = {}

\* C8: when load_documents fails, the store is as it was when the run
\* started, with or without --reset.
C8_LoadFailureLeavesStore ==
    (pc = "failed" /\ ops = <<>>) => db = db0

\* C9: a completed run on the batch of the interrupted run before it (one
\* that failed or was terminated before the delete, between the delete and
\* the add, or after the add) leaves the store with exactly the ids of the
\* batch.
C9_SafeResume ==
    (pc = "done" /\ partial.valid /\ partial.chunks = chunks) =>
        DOMAIN db = Ids(chunks)

C9_Witness ==
    /\ pc = "done"
    /\ partial.valid
    /\ partial.chunks = chunks
    /\ partial.at = "add"
    /\ DOMAIN db0 # Ids(chunks)
    /\ DOMAIN db0 \cap Ids(chunks) # {}
    /\ Added # {}
    /\ DOMAIN db = Ids(chunks)

\* C10: after a completed run the store holds, under the id of every chunk of
\* the batch, a document with that chunk's text.
C10_IdentityIsContent ==
    pc = "done" =>
        \A k \in DOMAIN chunks :
            /\ chunks[k].id \in DOMAIN db
            /\ db[chunks[k].id].text = chunks[k].text

\* The page id of the chunk at position k, from the files as they are.
KeyAt(cs, k) ==
    PageId(cs[k].source, cs[k].page, calculate_sha1(files, cs[k].source))
\* How many chunks right before position k, without a gap, have its page id.
PrecedingSame(cs, k) ==
    Cardinality({j \in 1..(k - 1) :
        \A m \in j..(k - 1) : KeyAt(cs, m) = KeyAt(cs, k)})

\* C11: the id of every chunk calculate_chunk_ids has passed is its page id
\* followed by the number of chunks right before it, without a gap, that have
\* the same page id: a run of k chunks with one page id gets 0, 1, ..., k-1
\* and the first chunk after a change of page id gets 0.
C11_PositionalNumbering ==
    pc \in {"loop", "returned"} =>
        \A k \in 1..(i - 1) :
            chunks[k].id = ChunkId(KeyAt(chunks, k), PrecedingSame(chunks, k))

C11_Witness ==
    /\ pc = "returned"
    /\ Len(chunks) >= 3
    /\ KeyAt(chunks, 1) = KeyAt(chunks, 2)
    /\ KeyAt(chunks, 2) # KeyAt(chunks, 3)
    /\ chunks[2].id = ChunkId(KeyAt(chunks, 2), 1)
    /\ chunks[3].id = ChunkId(KeyAt(chunks, 3), 0)

\* The store calls a run makes when nothing stops it: the read, the delete
\* when obsolete_ids is not empty, the add when new_chunks is not empty.
ExpectedOps ==
    <<<<"get">>>>
      \o (IF obsolete_ids # {} THEN <<<<"delete", obsolete_ids>>>> ELSE <<>>)
      \o (IF Len(new_chunks) # 0 THEN <<<<"add", Ids(new_chunks)>>>> ELSE <<>>)
IsPrefix(s, t) == Len(s) <= Len(t) /\ s = SubSeq(t, 1, Len(s))

\* C12: the store calls of a run are, in this order, one read, then at most
\* one delete (of obsolete_ids, and only when it is not empty), then at most
\* one add (of new_chunks, and only when it is not empty); a completed run has
\* made exactly these calls, and a run fails at the delete or the add only
\* when that call was made.
C12_StepOrder ==
    /\ pc \in {"load", "split", "calc", "loop", "returned"} => ops = <<>>
    /\ ops # <<>> => IsPrefix(ops, ExpectedOps)
    /\ pc = "delete" => ops = <<<<"get">>>>
    /\ pc \in {"finish", "done"} => ops = ExpectedOps
    /\ (pc = "failed" /\ ops # <<>>) =>
           \/ partial.at = "delete" /\ obsolete_ids # {}
           \/ partial.at = "add" /\ Len(new_chunks) # 0

C12_Witness ==
    /\ pc = "done"
    /\ Len(ops) = 3
    /\ ops[2] = <<"delete", obsolete_ids>>
    /\ ops[3] = <<"add", Ids(new_chunks)>>

\* The ids the run read from the store that the batch has too.
Kept == existing_ids \cap Ids(chunks)

\* C13: an id that the run read from the store and that the batch has is
\* passed neither to the delete nor to the add, and the document stored under
\* it is the one stored when the run started.
C13_ExistingUntouched ==
    \A x \in Kept :
        /\ x \notin Deleted
        /\ x \notin Added
        /\ x \in DOMAIN db
        /\ x \in DOMAIN db0
        /\ db[x] = db0[x]

C13_Witness ==
    /\ pc = "done"
    /\ Kept # {}
    /\ Deleted # {}
    /\ Added # {}
    /\ \A x \in Kept : db[x] = db0[x]

\* C14: a run completes only when the store has taken every delete and add
\* the run needed, so a run whose delete or add the store rejected never
\* completes; and in a run that failed in add_to_chroma the store is what the
\* run read minus the ids of the delete that went through, each document
\* being the one stored when the run started.
C14_WriteFailureSurfaces ==
    /\ pc \in {"finish", "done"} =>
        /\ obsolete_ids # {} => Deleted = obsolete_ids
        /\ Len(new_chunks) # 0 => Added = Ids(new_chunks)
        /\ DOMAIN db = (existing_ids \ obsolete_ids) \cup Ids(new_chunks)
    /\ (pc = "failed" /\ ops # <<>>) =>
        /\ Added = {}
        /\ DOMAIN db = existing_ids \ Deleted
        /\ \A x \in DOMAIN db : db[x] = db0[x]
        /\ partial.at = "add" => Deleted = obsolete_ids

C14_Witness ==
    /\ pc = "failed"
    /\ partial.at = "add"
    /\ Deleted # {}
    /\ DOMAIN db = existing_ids \ Deleted
    /\ DOMAIN db # {}

\* C15: once add_to_chroma has read the store, the ids to delete and the ids
\* to add are disjoint, the ids to delete are ids the store had, and no id to
\* add is one the store had; and when the run has completed, the ids of the
\* store are exactly the ids of the run's batch, whatever the store held when
\* the run started.
C15_Convergence ==
    /\ pc \in AfterGet =>
        /\ obsolete_ids \cap Ids(new_chunks) = {}
        /\ obsolete_ids \subseteq existing_ids
        /\ Ids(new_chunks) \cap existing_ids = {}
    /\ pc = "done" => DOMAIN db = Ids(chunks)

C15_Witness ==
    /\ pc = "done"
    /\ partial.valid
    /\ partial.chunks # chunks
    /\ DOMAIN db0 # {}
    /\ obsolete_ids # {}
    /\ Len(new_chunks) >= 2
    /\ DOMAIN db = Ids(chunks)

\* C16: when two runs of add_to_chroma on one batch and one store have both
\* finished, however their reads, deletes and adds interleaved, the ids of the
\* store are exactly the ids of the batch.
C16_OverlappingRuns ==
    (\A r \in Runs : runs[r].pc = "done") => DOMAIN db = Ids(chunks)

C16_Witness ==
    /\ \A r \in Runs :
        /\ runs[r].pc = "done"
        /\ runs[r].obsolete_ids # {}
        /\ Len(runs[r].new_chunks) # 0
        /\ runs[r].existing_ids \cap Ids(chunks) # {}
    /\ DOMAIN db = Ids(chunks)

\* The loop of calculate_chunk_ids returns what the function of the batch and
\* the files gives.
LoopIsFunction ==
    pc = "returned" =>
        chunks = calculate_chunk_ids(
                     [k \in DOMAIN chunks |-> [chunks[k] EXCEPT !.id = None]],
                     files)

====
